---- MODULE Spec2Model ----
(***************************************************************************)
(* Model of src/BING.py: SmartIndexNowSubmitter.                           *)
(*                                                                         *)
(* A sitemap document (the bytes fetched or stored) is a record            *)
(*   [wf |-> it is well-formed XML, entries |-> its <url> elements in      *)
(*    document order, pad |-> bytes that do not reach the URL mapping,     *)
(*    enc |-> its XML declaration names an encoding the parser knows]      *)
(* A <url> element is <<loc, lastmod>>: loc = 0 is a <url> without <loc>,  *)
(* lastmod = 0 is an absent <lastmod>.                                     *)
(* A URL mapping (a Python dict, insertion ordered) is a record            *)
(*   [keys |-> the URLs in insertion order, val |-> URL -> lastmod]        *)
(***************************************************************************)
EXTENDS Integers, Sequences, FiniteSets, TLC

\* ------------------------------------------------------------------ bounds
MaxRuns == 2          \* invocations of run() in one behaviour
MaxUrls == 4          \* length of the list given to a direct submit call
MaxBatch == 3         \* batch_size of a direct submit call
NumUrls == 3          \* URLs of the mappings given to a direct compare call
NumLastmods == 2      \* lastmod values (besides absent) of those mappings
MaxFiles == 3         \* snapshot files in a store given to cleanup_old_sitemaps
MaxFaults == 1        \* storage operations that fail in one behaviour
MaxHistory == 2       \* the max_history the submitter is constructed with

\* -------------------------------------------------------- program constants
DefaultBatchSize == 100
KeepCount == 1

NoLastmod == 0        \* lastmod is None
NoLoc == 0            \* <url> element without a <loc> child
NoFile == 0 - 1       \* get_latest_sitemap_file() returned None

\* download_sitemap() returned None
NoneContent == [wf |-> FALSE, entries |-> <<>>, pad |-> 0 - 1, enc |-> TRUE]
\* download_sitemap() returned b""
EmptyBytes == [wf |-> FALSE, entries |-> <<>>, pad |-> 0, enc |-> TRUE]

\* The documents the sitemap URL serves in the model.
Documents ==
  << [wf |-> TRUE,  entries |-> << <<1, 1>>, <<2, 0>> >>,
      pad |-> 0, enc |-> TRUE],
     [wf |-> TRUE,  entries |-> << <<1, 2>>, <<2, 0>> >>,
      pad |-> 0, enc |-> TRUE],
     [wf |-> TRUE,  entries |-> << <<2, 0>> >>,
      pad |-> 0, enc |-> TRUE],
     [wf |-> TRUE,  entries |-> << <<1, 1>>, <<2, 0>> >>,
      pad |-> 1, enc |-> TRUE],
     [wf |-> TRUE,  entries |-> << <<2, 1>>, <<0, 1>>, <<3, 0>> >>,
      pad |-> 0, enc |-> TRUE],
     [wf |-> FALSE, entries |-> << <<1, 1>> >>,
      pad |-> 1, enc |-> TRUE],
     [wf |-> TRUE,  entries |-> << <<1, 1>> >>,
      pad |-> 0, enc |-> FALSE] >>

Range(s) == {s[k] : k \in 1..Len(s)}

Min(a, b) == IF a < b THEN a ELSE b

EmptyMapping == [keys |-> <<>>, val |-> <<>>]

\* --------------------------------------------------------- pure functions

\* hashlib.sha256(content).hexdigest(): a digest that differs for different
\* contents (collisions are treated as impossible).
calculate_hash(content) ==
  IF content = EmptyBytes THEN 0
  ELSE CHOOSE h \in 1..Len(Documents) : Documents[h] = content

\* urls_data[url] = lastmod for one <url> element.
DictSet(m, url, lastmod) ==
  [keys |-> IF url \in Range(m.keys) THEN m.keys ELSE Append(m.keys, url),
   val  |-> [u \in Range(m.keys) \cup {url} |->
               IF u = url THEN lastmod ELSE m.val[u]]]

RECURSIVE ParseEntries(_, _)
ParseEntries(entries, m) ==
  IF entries = <<>> THEN m
  ELSE LET e == Head(entries)
       IN ParseEntries(Tail(entries),
                       IF e[1] # NoLoc THEN DictSet(m, e[1], e[2]) ELSE m)

\* ET.fromstring raises ValueError ("multi-byte encodings are not supported",
\* for a declaration such as encoding="gb2312") or LookupError ("unknown
\* encoding") for a document whose declaration names an encoding the parser
\* cannot handle; the except clause at line 124 catches ET.ParseError only,
\* so the exception leaves parse_sitemap_urls.
ParseRaises(xml_content) == ~xml_content.enc

\* ET.fromstring raises ParseError before any <url> is looked at.
parse_sitemap_urls(xml_content) ==
  IF xml_content.wf THEN ParseEntries(xml_content.entries, EmptyMapping)
  ELSE EmptyMapping

\* the first loop of compare_urls_and_filter_changes, over current_urls.items()
RECURSIVE CompareLoop(_, _, _, _)
CompareLoop(ks, current_urls, previous_urls, acc) ==
  IF ks = <<>> THEN acc
  ELSE LET url == Head(ks)
           lastmod == current_urls.val[url]
       IN IF url \notin Range(previous_urls.keys)
          THEN CompareLoop(Tail(ks), current_urls, previous_urls,
                           [acc EXCEPT !.new = Append(@, url)])
          ELSE IF lastmod # previous_urls.val[url]
               THEN CompareLoop(Tail(ks), current_urls, previous_urls,
                                [acc EXCEPT !.changed = Append(@, url)])
               ELSE CompareLoop(Tail(ks), current_urls, previous_urls, acc)

\* the second loop, over previous_urls
RECURSIVE DeletedLoop(_, _, _)
DeletedLoop(ks, current_urls, acc) ==
  IF ks = <<>> THEN acc
  ELSE DeletedLoop(Tail(ks), current_urls,
                   IF Head(ks) \notin Range(current_urls.keys)
                   THEN Append(acc, Head(ks)) ELSE acc)

\* a variant of the comparison for which a URL that lost its lastmod has
\* not changed
compare_IgnoringLostLastmod(cur, prev) ==
  [new     |-> SelectSeq(cur.keys, LAMBDA u : u \notin Range(prev.keys)),
   changed |-> SelectSeq(cur.keys, LAMBDA u :
                  /\ u \in Range(prev.keys)
                  /\ cur.val[u] # NoLastmod
                  /\ cur.val[u] # prev.val[u]),
   deleted |-> SelectSeq(prev.keys, LAMBDA u : u \notin Range(cur.keys))]

\* a variant of the comparison for which a URL without lastmod has always
\* changed
compare_AbsentAlwaysChanged(cur, prev) ==
  [new     |-> SelectSeq(cur.keys, LAMBDA u : u \notin Range(prev.keys)),
   changed |-> SelectSeq(cur.keys, LAMBDA u :
                  /\ u \in Range(prev.keys)
                  /\ (cur.val[u] = NoLastmod \/ cur.val[u] # prev.val[u])),
   deleted |-> SelectSeq(prev.keys, LAMBDA u : u \notin Range(cur.keys))]

\* a variant of the comparison that takes every URL of the current sitemap
\* as new
compare_ResendingAll(cur, prev) ==
  [new     |-> cur.keys,
   changed |-> <<>>,
   deleted |-> SelectSeq(prev.keys, LAMBDA u : u \notin Range(cur.keys))]

\* lines 129-152
compare_urls_and_filter_changes(current_urls, previous_urls) ==
  LET nc == CompareLoop(current_urls.keys, current_urls, previous_urls,
                        [new |-> <<>>, changed |-> <<>>])
  IN [new     |-> nc.new,
      changed |-> nc.changed,
      deleted |-> DeletedLoop(previous_urls.keys, current_urls, <<>>)]

\* sorted(sitemap_files)[-1]: the file with the greatest name, or None
get_latest_sitemap_file(fs) ==
  IF DOMAIN fs = {} THEN NoFile
  ELSE CHOOSE n \in DOMAIN fs : \A o \in DOMAIN fs : o <= n

\* a variant of Batch whose slice is one URL too long
Batch_Overlapping(us, at, size) ==
  SubSeq(us, at + 1, Min(at + size + 1, Len(us)))

\* urls[i:i+batch_size]
Batch(us, at, size) == SubSeq(us, at + 1, Min(at + size, Len(us)))

\* (total_urls + batch_size - 1) // batch_size
TotalBatches(total_urls, size) == (total_urls + size - 1) \div size

\* a variant of OldFiles that sorts by file name, newest name first
OldFiles_ByName(fs, keep_count) ==
  {n \in DOMAIN fs :
      Cardinality({o \in DOMAIN fs : o > n}) >= keep_count}

\* sitemap_files[keep_count:] after the sort by modification time, newest first
OldFiles(fs, keep_count) ==
  {n \in DOMAIN fs :
      Cardinality({o \in DOMAIN fs : fs[o].mtime > fs[n].mtime}) >= keep_count}

\* open(filename, 'wb').write(content): creates or overwrites the file
WriteFile(fs, name, content, mtime) ==
  [n \in DOMAIN fs \cup {name} |->
      IF n = name THEN [content |-> content, mtime |-> mtime] ELSE fs[n]]

RemoveFiles(fs, names) == [n \in DOMAIN fs \ names |-> fs[n]]

\* history_entries.append(new_entry); history_entries[-max_history:]
AppendBounded(entries, entry, max_history) ==
  LET all == Append(entries, entry)
  IN IF Len(all) > max_history
     THEN SubSeq(all, Len(all) - max_history + 1, Len(all))
     ELSE all

\* an entry of the log: the operation, the batch it sent, how it ended
Ev(op, batch, status) == [op |-> op, batch |-> batch, status |-> status]

Ok(b) == IF b THEN "ok" ELSE "failed"

\* ------------------------------------------------------------------ state
VARIABLES
  files,              \* storage_dir: snapshot name -> [content, mtime]
  history_file,       \* the entries stored in the history file
  clock,              \* wall clock in seconds (names the snapshot files)
  mtick,              \* file system time (modification times)
  runs,               \* invocations of run() so far
  faults,             \* storage operations that have failed so far
  pc,                 \* position of the running call
  caller,             \* "run" or "direct": who called the running operation
  current_content,    \* run(): the fetched bytes
  latest_file,        \* run(): name of the snapshot found, or NoFile
  new_urls, changed_urls, deleted_urls, urls_to_submit,
  success,            \* run(): the dispatcher's result
  save_success,       \* run(): save_sitemap's result
  result,             \* the value the call returned
  urls, batch_size,   \* submit_to_indexnow: arguments
  i,                  \* submit_to_indexnow: loop index
  successful_batches, \* submit_to_indexnow
  current_urls, previous_urls, \* compare_urls_and_filter_changes: arguments
  log,                \* the operations performed by the running call, in order
  files0, history0,   \* the store as it was when the running call started
  prev_run            \* the bytes saved by the run before the running one if
                      \* one of its requests failed, else NoneContent

store == <<files, history_file>>
time == <<clock, mtick>>
runlocals == <<current_content, latest_file, new_urls, changed_urls,
               deleted_urls, urls_to_submit, success, save_success>>
sublocals == <<urls, batch_size, i, successful_batches>>
cmpargs == <<current_urls, previous_urls>>
start == <<files0, history0, prev_run>>
vars == <<store, time, runs, faults, pc, caller, runlocals, result, sublocals,
          cmpargs, log, start>>

\* the locals of a call that has not run
InitLocals ==
  /\ current_content = NoneContent
  /\ latest_file = NoFile
  /\ new_urls = <<>> /\ changed_urls = <<>> /\ deleted_urls = <<>>
  /\ urls_to_submit = <<>>
  /\ success = FALSE /\ save_success = FALSE /\ result = FALSE
  /\ log = <<>>

InitStore ==
  /\ files = <<>> /\ history_file = <<>>
  /\ clock = 0 /\ mtick = 0 /\ runs = 0 /\ faults = 0
  /\ files0 = <<>> /\ history0 = <<>>
  /\ prev_run = NoneContent

Init ==
  /\ InitStore /\ InitLocals
  /\ pc = "idle" /\ caller = "run"
  /\ urls = <<>> /\ batch_size = DefaultBatchSize
  /\ i = 0 /\ successful_batches = 0
  /\ current_urls = EmptyMapping /\ previous_urls = EmptyMapping
\* ---------------------------------------------------------------- run()

Contents == Range(Documents)

\* a variant of AfterDownload that goes on to save whatever was returned
AfterDownload_SavesAnyway(content) ==
  IF content \in {NoneContent, EmptyBytes} THEN "nosubmit" ELSE "analyze"

\* lines 285-287: "if not current_content: return False"
AfterDownload(content) ==
  IF content \in {NoneContent, EmptyBytes} THEN "done" ELSE "analyze"

\* lines 273-289: a new invocation; download_sitemap() returns None, b"" or
\* the bytes of a document; no content ends the run with False.
Run_Download ==
  /\ pc \in {"idle", "done", "crashed"} /\ caller = "run"
  /\ runs < MaxRuns
  /\ \E d \in 0..1, c \in {NoneContent, EmptyBytes} \cup Contents :
       /\ clock' = clock + d
       /\ current_content' = c
       /\ pc' = AfterDownload(c)
  /\ runs' = runs + 1
  /\ result' = FALSE
  /\ latest_file' = NoFile
  /\ new_urls' = <<>> /\ changed_urls' = <<>> /\ deleted_urls' = <<>>
  /\ urls_to_submit' = <<>>
  /\ success' = FALSE /\ save_success' = FALSE
  /\ log' = <<>>
  /\ files0' = files /\ history0' = history_file
  /\ prev_run' = IF /\ pc = "done"
                    /\ \E k \in 1..Len(log) :
                         log[k].op = "post" /\ log[k].status # "200"
                    /\ \E k \in 1..Len(log) :
                         log[k].op = "save" /\ log[k].status = "ok"
                 THEN current_content
                 ELSE NoneContent
  /\ UNCHANGED <<store, mtick, faults, caller, sublocals, cmpargs>>

\* a variant of ShortCircuit that goes on to save the fetched bytes
ShortCircuit_SavesAnyway == pc' = "nosubmit" /\ result' = TRUE

\* lines 307-309: equal digests end the run with True
ShortCircuit == pc' = "done" /\ result' = TRUE

\* a variant of FirstRunUrls that leaves out the URLs without lastmod
FirstRunUrls_DatedOnly(m) ==
  SelectSeq(m.keys, LAMBDA u : m.val[u] # NoLastmod)

\* line 344: list(current_urls.keys())
FirstRunUrls(m) == m.keys

\* a variant of ToSubmit that also submits the deleted URLs
ToSubmit_WithDeleted(d) == d.new \o d.changed \o d.deleted

\* line 321: new_urls + changed_urls
ToSubmit(d) == d.new \o d.changed

\* lines 332 and 348: after the diff
AfterDiff(to_submit) == IF to_submit = <<>> THEN "nosubmit" ELSE "submit"

\* lines 291-346: look up the latest snapshot, compare the digests, parse
\* and diff (or, without a snapshot, parse only).  An exception that leaves
\* parse_sitemap_urls leaves run() too.
Run_Analyze ==
  /\ pc = "analyze"
  /\ latest_file' = get_latest_sitemap_file(files)
  /\ IF latest_file' # NoFile
     THEN LET previous_content == files[latest_file'].content
          IN IF calculate_hash(current_content) = calculate_hash(previous_content)
             THEN /\ ShortCircuit
                  /\ log' = Append(log, Ev("hash", <<>>, "ok"))
                  /\ UNCHANGED <<new_urls, changed_urls, deleted_urls,
                                 urls_to_submit>>
             ELSE IF ParseRaises(current_content) \/ ParseRaises(previous_content)
             THEN /\ pc' = "crashed"
                  /\ log' = log \o <<Ev("hash", <<>>, "ok"),
                                     Ev("parse", <<>>, "raised")>>
                  /\ UNCHANGED <<new_urls, changed_urls, deleted_urls,
                                 urls_to_submit, result>>
             ELSE LET d == compare_urls_and_filter_changes(
                               parse_sitemap_urls(current_content),
                               parse_sitemap_urls(previous_content))
                  IN /\ new_urls' = d.new
                     /\ changed_urls' = d.changed
                     /\ deleted_urls' = d.deleted
                     /\ urls_to_submit' = ToSubmit(d)
                     /\ log' = log \o <<Ev("hash", <<>>, "ok"), Ev("parse", <<>>, "ok"),
                                        Ev("parse", <<>>, "ok"), Ev("diff", <<>>, "ok")>>
                     /\ pc' = AfterDiff(urls_to_submit')
                     /\ UNCHANGED result
     ELSE IF ParseRaises(current_content)
     THEN /\ pc' = "crashed"
          /\ log' = Append(log, Ev("parse", <<>>, "raised"))
          /\ UNCHANGED <<new_urls, changed_urls, deleted_urls,
                         urls_to_submit, result>>
     ELSE /\ urls_to_submit' = FirstRunUrls(parse_sitemap_urls(current_content))
          /\ new_urls' = urls_to_submit'
          /\ log' = Append(log, Ev("parse", <<>>, "ok"))
          /\ pc' = "submit"
          /\ UNCHANGED <<changed_urls, deleted_urls, result>>
  /\ UNCHANGED <<store, time, runs, faults, caller, current_content, success,
                 save_success, sublocals, cmpargs, start>>

\* a storage operation (a write, a read, the removals of one prune) that
\* fails counts as one fault
Fault(failed) == IF failed THEN 1 ELSE 0

\* open(filename, 'wb') raises (the store is left alone), or it creates or
\* truncates the file and the write raises (an empty file is left), or the
\* bytes are written.
SaveOutcomes == {"ok", "open_failed", "write_failed"}

\* lines 91-98: the files after save_sitemap(content, name)
Saved(fs, outcome, name, content, mtime) ==
  IF outcome = "ok" THEN WriteFile(fs, name, content, mtime)
  ELSE IF outcome = "write_failed" THEN WriteFile(fs, name, EmptyBytes, mtime)
  ELSE fs

\* save_sitemap(content, get_new_sitemap_filename()): the file is named by
\* the clock
save_sitemap(outcome) ==
  /\ mtick' = IF outcome = "open_failed" THEN mtick ELSE mtick + 1
  /\ files' = Saved(files, outcome, clock, current_content, mtick')

\* cleanup_old_sitemaps(keep_count): os.remove fails for the files in failing
cleanup_old_sitemaps(fs, keep_count, failing) ==
  RemoveFiles(fs, OldFiles(fs, keep_count) \ failing)

\* a variant of NoSubmitSaved that does not save when nothing is submitted
NoSubmitSaved_Skipped(fs, outcome, name, content, mtime) == fs

\* lines 335-336: the snapshot is saved although nothing is submitted
NoSubmitSaved(fs, outcome, name, content, mtime) ==
  Saved(fs, outcome, name, content, mtime)

\* lines 332-339: nothing to submit: save, prune, return True
Run_NoSubmit ==
  /\ pc = "nosubmit"
  /\ \E outcome \in SaveOutcomes :
       /\ mtick' = IF outcome = "open_failed" THEN mtick ELSE mtick + 1
       /\ save_success' = (outcome = "ok")
       /\ LET saved == NoSubmitSaved(files, outcome, clock, current_content,
                                     mtick')
          IN \E failing \in SUBSET OldFiles(saved, KeepCount) :
               /\ faults' = faults + Fault(outcome # "ok") + Fault(failing # {})
               /\ faults' <= MaxFaults
               /\ files' = cleanup_old_sitemaps(saved, KeepCount, failing)
               /\ log' = log \o <<Ev("save", <<>>, Ok(save_success')),
                                  Ev("prune", <<>>, Ok(failing = {}))>>
  /\ result' = TRUE
  /\ pc' = "done"
  /\ UNCHANGED <<history_file, clock, runs, caller, current_content,
                 latest_file, new_urls, changed_urls, deleted_urls,
                 urls_to_submit, success, sublocals, cmpargs, start>>

\* lines 348-353: call the dispatcher, or skip it for an empty list
Run_Submit ==
  /\ pc = "submit"
  /\ IF urls_to_submit # <<>>
     THEN /\ urls' = urls_to_submit
          /\ batch_size' = DefaultBatchSize
          /\ pc' = "submit_entry"
          /\ UNCHANGED success
     ELSE /\ success' = TRUE
          /\ pc' = "save"
          /\ UNCHANGED <<urls, batch_size>>
  /\ UNCHANGED <<store, time, runs, faults, caller, current_content, latest_file,
                 new_urls, changed_urls, deleted_urls, urls_to_submit,
                 save_success, result, i, successful_batches, cmpargs, log,
                 start>>

\* lines 355-358
Run_Save ==
  /\ pc = "save"
  /\ \E outcome \in SaveOutcomes :
       /\ faults' = faults + Fault(outcome # "ok")
       /\ faults' <= MaxFaults
       /\ save_sitemap(outcome)
       /\ save_success' = (outcome = "ok")
  /\ log' = Append(log, Ev("save", <<>>, Ok(save_success')))
  /\ pc' = "history"
  /\ UNCHANGED <<history_file, clock, runs, caller, current_content,
                 latest_file, new_urls, changed_urls, deleted_urls,
                 urls_to_submit, success, result, sublocals, cmpargs, start>>

\* save_submission_history: reading the stored entries may fail (then the
\* list starts empty), and so may the write (then the file is left alone).
save_submission_history(read_ok, write_ok) ==
  LET history_entries == IF read_ok THEN history_file ELSE <<>>
      new_entry == [new |-> new_urls, changed |-> changed_urls,
                    deleted |-> deleted_urls,
                    total |-> Len(urls_to_submit)]
  IN history_file' = IF write_ok
                     THEN AppendBounded(history_entries, new_entry, MaxHistory)
                     ELSE history_file

\* the write fails ("failed"), or it succeeds after the read of an existing
\* file failed ("read_failed"), or both succeed
HistoryOutcomes(stored) ==
  {"ok", "failed"} \cup (IF stored # <<>> THEN {"read_failed"} ELSE {})

\* lines 360-363
Run_History ==
  /\ pc = "history"
  /\ IF urls_to_submit # <<>> \/ deleted_urls # <<>>
     THEN \E outcome \in HistoryOutcomes(history_file) :
            /\ faults' = faults + Fault(outcome # "ok")
            /\ faults' <= MaxFaults
            /\ save_submission_history(outcome # "read_failed",
                                       outcome # "failed")
            /\ log' = Append(log, Ev("history", <<>>, outcome))
     ELSE UNCHANGED <<history_file, log, faults>>
  /\ pc' = "prune"
  /\ UNCHANGED <<files, time, runs, caller, runlocals, result, sublocals,
                 cmpargs, start>>

\* lines 365-366
Run_Prune ==
  /\ pc = "prune"
  /\ \E failing \in SUBSET OldFiles(files, KeepCount) :
       /\ faults' = faults + Fault(failing # {})
       /\ faults' <= MaxFaults
       /\ files' = cleanup_old_sitemaps(files, KeepCount, failing)
       /\ log' = Append(log, Ev("prune", <<>>, Ok(failing = {})))
  /\ pc' = "return"
  /\ UNCHANGED <<history_file, time, runs, caller, runlocals, result,
                 sublocals, cmpargs, start>>

\* the value run() returns at line 373
RunResult(dispatched, saved) == dispatched

\* lines 368-373
Run_Return ==
  /\ pc = "return"
  /\ result' = RunResult(success, save_success)
  /\ pc' = "done"
  /\ UNCHANGED <<store, time, runs, faults, caller, runlocals, sublocals, cmpargs,
                 log, start>>

\* ------------------------------------------------- submit_to_indexnow()

\* a variant of AfterDispatch that gives up the bookkeeping after a failure
AfterDispatch_SkipOnFailure(ok) == IF ok THEN "save" ELSE "return"

\* lines 351-357: where run() goes on once the dispatcher has returned
AfterDispatch(ok) == "save"

\* lines 156-165: an empty list returns True at once
Submit_Enter ==
  /\ pc = "submit_entry"
  /\ i' = 0 /\ successful_batches' = 0
  /\ IF urls = <<>>
     THEN /\ pc' = IF caller = "run" THEN AfterDispatch(TRUE) ELSE "done"
          /\ IF caller = "run"
             THEN success' = TRUE /\ UNCHANGED result
             ELSE result' = TRUE /\ UNCHANGED success
     ELSE pc' = "batch" /\ UNCHANGED <<success, result>>
  /\ UNCHANGED <<store, time, runs, faults, caller, current_content, latest_file,
                 new_urls, changed_urls, deleted_urls, urls_to_submit,
                 save_success, urls, batch_size, cmpargs, log, start>>

Outcomes == {"200", "other", "exception"}

\* the effect of one iteration on the log: the request, then time.sleep(1)
\* unless requests.post raised
BatchEvents(batch, outcome) ==
  IF outcome = "exception" THEN <<Ev("post", batch, outcome)>>
  ELSE <<Ev("post", batch, outcome), Ev("sleep", <<>>, "ok")>>

\* successful_batches after one iteration
Counted(n, outcome) == IF outcome = "200" THEN n + 1 ELSE n

\* a variant of NextIndex that leaves the loop when the request raised
NextIndex_AbortOnError(at, size, outcome, total) ==
  IF outcome = "exception" THEN total ELSE at + size

\* range(0, total_urls, batch_size): the index of the next iteration,
\* whatever the outcome of this one
NextIndex(at, size, outcome, total) == at + size

\* lines 168-195: one iteration of the loop
Submit_Batch ==
  /\ pc = "batch"
  /\ i < Len(urls)
  /\ \E outcome \in Outcomes :
       /\ log' = log \o BatchEvents(Batch(urls, i, batch_size), outcome)
       /\ successful_batches' = Counted(successful_batches, outcome)
       /\ clock' = IF outcome = "exception" THEN clock ELSE clock + 1
       /\ i' = NextIndex(i, batch_size, outcome, Len(urls))
  /\ UNCHANGED <<store, mtick, runs, faults, pc, caller, runlocals, result, urls,
                 batch_size, cmpargs, start>>

\* a variant of SubmitResult that is content with one successful batch
SubmitResult_AnyBatch(successful, total) == successful >= 1

\* line 200
SubmitResult(successful, total) == successful = total

\* lines 197-200: the loop is over
Submit_Return ==
  /\ pc = "batch"
  /\ i >= Len(urls)
  /\ LET r == SubmitResult(successful_batches,
                           TotalBatches(Len(urls), batch_size))
     IN IF caller = "run"
        THEN success' = r /\ pc' = AfterDispatch(r) /\ UNCHANGED result
        ELSE result' = r /\ pc' = "done" /\ UNCHANGED success
  /\ UNCHANGED <<store, time, runs, faults, caller, current_content, latest_file,
                 new_urls, changed_urls, deleted_urls, urls_to_submit,
                 save_success, sublocals, cmpargs, log, start>>

Next ==
  \/ Run_Download
  \/ Run_Analyze
  \/ Run_NoSubmit
  \/ Run_Submit
  \/ Run_Save
  \/ Run_History
  \/ Run_Prune
  \/ Run_Return
  \/ Submit_Enter
  \/ Submit_Batch
  \/ Submit_Return

Spec == Init /\ [][Next]_vars



\* ------------------------------- submit_to_indexnow() called on its own

\* <<number of URLs, batch_size>> of the calls
SubmitInputs ==
  {<<n, b>> : n \in 0..MaxUrls, b \in 1..MaxBatch}
    \cup {<<250, DefaultBatchSize>>}

InitSubmit ==
  /\ InitStore /\ InitLocals
  /\ pc = "submit_entry" /\ caller = "direct"
  /\ \E in \in SubmitInputs :
       /\ urls = [k \in 1..in[1] |-> k]
       /\ batch_size = in[2]
  /\ i = 0 /\ successful_batches = 0
  /\ current_urls = EmptyMapping /\ previous_urls = EmptyMapping

NextSubmit ==
  \/ Submit_Enter
  \/ Submit_Batch
  \/ Submit_Return

SpecSubmit == InitSubmit /\ [][NextSubmit]_vars

\* --------------------- compare_urls_and_filter_changes() called on its own

\* the lists of different URLs among 1..NumUrls, in ascending order
AscendingLists ==
  {ks \in UNION {[1..n -> 1..NumUrls] : n \in 0..NumUrls} :
      \A a, b \in 1..Len(ks) : a < b => ks[a] < ks[b]}

Reverse(ks) == [k \in 1..Len(ks) |-> ks[Len(ks) + 1 - k]]

\* the URL mappings with these insertion orders, lastmod absent or one of
\* NumLastmods values
MappingsOver(lists) ==
  UNION {{[keys |-> ks, val |-> v] : v \in [Range(ks) -> 0..NumLastmods]} :
           ks \in lists}

\* the arguments of the calls: the two mappings list their common URLs in
\* the same order or in opposite orders
CurrentMappings ==
  MappingsOver(AscendingLists \cup {Reverse(ks) : ks \in AscendingLists})

PreviousMappings == MappingsOver(AscendingLists)

InitDiff ==
  /\ InitStore /\ InitLocals
  /\ pc = "compare_entry" /\ caller = "direct"
  /\ urls = <<>> /\ batch_size = DefaultBatchSize
  /\ i = 0 /\ successful_batches = 0
  /\ current_urls \in CurrentMappings /\ previous_urls \in PreviousMappings

\* lines 129-152
Compare_Call ==
  /\ pc = "compare_entry"
  /\ LET d == compare_urls_and_filter_changes(current_urls, previous_urls)
     IN /\ new_urls' = d.new
        /\ changed_urls' = d.changed
        /\ deleted_urls' = d.deleted
  /\ log' = Append(log, Ev("diff", <<>>, "ok"))
  /\ pc' = "done"
  /\ UNCHANGED <<store, time, runs, faults, caller, current_content, latest_file,
                 urls_to_submit, success, save_success, result, sublocals,
                 cmpargs, start>>

NextDiff == Compare_Call

SpecDiff == InitDiff /\ [][NextDiff]_vars

\* ------------------------------ save_submission_history() called on its own

\* <<new_urls, changed_urls>> of the calls
HistoryArgs == {<<n, c>> : n \in {<<>>, <<1>>}, c \in {<<>>, <<2>>}}

\* the entry a call with these lists writes (lines 219-239)
HistoryEntry(n, c) ==
  [new |-> n, changed |-> c, deleted |-> <<>>, total |-> Len(n) + Len(c)]

\* the logs that earlier calls can have left: at most MaxHistory entries
StoredHistories ==
  UNION {[1..k -> {HistoryEntry(a[1], a[2]) : a \in HistoryArgs}] :
           k \in 0..MaxHistory}

InitHistory ==
  /\ files = <<>> /\ clock = 0 /\ mtick = 0 /\ runs = 0 /\ faults = 0
  /\ files0 = <<>> /\ prev_run = NoneContent
  /\ history_file \in StoredHistories /\ history0 = history_file
  /\ pc = "history_entry" /\ caller = "direct"
  /\ current_content = NoneContent /\ latest_file = NoFile
  /\ \E a \in HistoryArgs :
       /\ new_urls = a[1] /\ changed_urls = a[2]
       /\ urls_to_submit = a[1] \o a[2]
  /\ deleted_urls = <<>>
  /\ success = FALSE /\ save_success = FALSE /\ result = FALSE
  /\ log = <<>>
  /\ urls = <<>> /\ batch_size = DefaultBatchSize
  /\ i = 0 /\ successful_batches = 0
  /\ current_urls = EmptyMapping /\ previous_urls = EmptyMapping

\* lines 202-255: one call
History_Call ==
  /\ pc = "history_entry"
  /\ \E outcome \in HistoryOutcomes(history_file) :
       /\ save_submission_history(outcome # "read_failed", outcome # "failed")
       /\ log' = <<Ev("history", <<>>, outcome)>>
  /\ history0' = history_file
  /\ runs' = runs + 1
  /\ pc' = "done"
  /\ UNCHANGED <<files, time, faults, caller, runlocals, result, sublocals,
                 cmpargs, files0, prev_run>>

\* the caller makes another call with other lists
History_Again ==
  /\ pc = "done" /\ caller = "direct"
  /\ runs < MaxRuns
  /\ \E a \in HistoryArgs :
       /\ new_urls' = a[1] /\ changed_urls' = a[2]
       /\ urls_to_submit' = a[1] \o a[2]
  /\ pc' = "history_entry"
  /\ UNCHANGED <<store, time, runs, faults, caller, current_content, latest_file,
                 deleted_urls, success, save_success, result, sublocals,
                 cmpargs, log, start>>

NextHistory ==
  \/ History_Call
  \/ History_Again

SpecHistory == InitHistory /\ [][NextHistory]_vars

\* ----------------------------------------------------------- properties

Ops(l) == [k \in 1..Len(l) |-> l[k].op]

Posts(l) == SelectSeq(l, LAMBDA e : e.op = "post")

Count(l, op) == Len(SelectSeq(l, LAMBDA e : e.op = op))

RECURSIVE Concat(_)
Concat(batches) ==
  IF batches = <<>> THEN <<>>
  ELSE Head(batches).batch \o Concat(Tail(batches))

\* the run fetched a document and found a snapshot with the same digest
FoundSameDigest ==
  /\ current_content \notin {NoneContent, EmptyBytes}
  /\ DOMAIN files0 # {}
  /\ calculate_hash(current_content)
       = calculate_hash(files0[get_latest_sitemap_file(files0)].content)

\* C1: a run that finds a stored snapshot with the digest of the fetched
\* bytes returns True and has changed nothing: it has not parsed, sent no
\* request, saved no snapshot, written no history entry and pruned nothing;
\* the snapshot files and the history are what they were when it started.
C1_UnchangedShortCircuits ==
  (pc = "done" /\ caller = "run" /\ FoundSameDigest) =>
     /\ result = TRUE
     /\ files = files0
     /\ history_file = history0
     /\ Range(Ops(log)) \subseteq {"hash"}

C1_Witness ==
  /\ pc = "done" /\ caller = "run" /\ FoundSameDigest
  /\ result = TRUE /\ log # <<>>

\* the operations of the log from the first save on
RECURSIVE FromSave(_)
FromSave(ops) ==
  IF ops = <<>> THEN <<>>
  ELSE IF Head(ops) = "save" THEN ops ELSE FromSave(Tail(ops))

\* C2: a run that reached the submission step with URLs to submit has, when
\* it ends, called the dispatcher and after its last request saved the
\* snapshot, appended the history entry and pruned, in this order, whatever
\* the dispatcher returned; where the write succeeded the fetched bytes are
\* stored and the last history entry is the one of this run.
C2_BookkeepingAfterDispatch ==
  (pc = "done" /\ caller = "run" /\ urls_to_submit # <<>>) =>
     /\ Count(log, "post") >= 1
     /\ FromSave(Ops(log)) = <<"save", "history", "prune">>
     /\ \A k \in 1..Len(log) :
          log[k].op = "save" /\ log[k].status = "ok" =>
             \E n \in DOMAIN files : files[n].content = current_content
     /\ \A k \in 1..Len(log) :
          log[k].op = "history" /\ log[k].status = "ok" =>
             /\ history_file # <<>>
             /\ history_file[Len(history_file)].new = new_urls
             /\ history_file[Len(history_file)].changed = changed_urls
             /\ history_file[Len(history_file)].total = Len(urls_to_submit)

C2_Witness ==
  /\ pc = "done" /\ caller = "run" /\ urls_to_submit # <<>>
  /\ success = FALSE
  /\ \E k \in 1..Len(log) : log[k].op = "save" /\ log[k].status = "ok"
  /\ \E k \in 1..Len(log) : log[k].op = "history" /\ log[k].status = "ok"
  /\ \E n \in DOMAIN files : files[n].content = current_content
  /\ Cardinality(DOMAIN files) = 1

\* C3: when a run that got past the hash comparison ends, the value it
\* returns is (dispatcher result AND snapshot save result); a run that had
\* nothing to submit counts as a successful dispatch.
C3_ResultReflectsSave ==
  (pc = "done" /\ caller = "run" /\ Count(log, "save") >= 1) =>
     (result = ((success \/ urls_to_submit = <<>>) /\ save_success))

\* ceil(n / b), not computed the way the code computes it
CeilDiv(n, b) == CHOOSE k \in 0..n : k * b >= n /\ (k = 0 \/ (k - 1) * b < n)

\* C4: a call of submit_to_indexnow with n URLs and batch size b has, when it
\* returns, sent exactly ceil(n/b) requests (none for an empty list), the
\* k-th of them starting at URL (k-1)*b+1 of the input, whatever the outcome
\* of each request was: no failure ends the loop early and no batch is sent
\* twice.
C4_OneRequestPerBatch ==
  (pc = "done" /\ caller = "direct") =>
     LET posts == Posts(log)
     IN /\ Len(posts) = CeilDiv(Len(urls), batch_size)
        /\ \A k \in 1..Len(posts) :
             /\ posts[k].batch # <<>>
             /\ posts[k].batch[1] = urls[(k - 1) * batch_size + 1]
        /\ \A k, m \in 1..Len(posts) :
             k # m => posts[k].batch # posts[m].batch

C4_Witness ==
  /\ pc = "done" /\ caller = "direct"
  /\ Len(Posts(log)) >= 3
  /\ Posts(log)[1].status = "exception"
  /\ Posts(log)[2].status = "other"
  /\ Posts(log)[3].status = "200"

\* C5: submit_to_indexnow returns True exactly when every request it sent
\* was answered with status 200 (so also for an empty list); one request
\* with another status or a transport failure makes it return False.
C5_TrueIffAllBatches200 ==
  (pc = "done" /\ caller = "direct") =>
     (result = \A k \in 1..Len(log) :
                  log[k].op = "post" => log[k].status = "200")

C5_Witness ==
  /\ pc = "done" /\ caller = "direct"
  /\ result = FALSE
  /\ Len(Posts(log)) >= 2
  /\ Posts(log)[1].status = "200"
  /\ Posts(log)[2].status # "200"

\* C6: the batches sent by submit_to_indexnow are a partition of the input
\* into consecutive slices: none is empty, none is longer than batch_size,
\* all but the last have exactly batch_size URLs, and put one after the other
\* in the order sent they are the input; 250 URLs with batch size 100 are
\* sent as batches of 100, 100 and 50.
C6_BatchesPartitionInput ==
  (pc = "done" /\ caller = "direct") =>
     LET posts == Posts(log)
     IN /\ \A k \in 1..Len(posts) :
             /\ Len(posts[k].batch) >= 1
             /\ Len(posts[k].batch) <= batch_size
             /\ k < Len(posts) => Len(posts[k].batch) = batch_size
        /\ Concat(posts) = urls
        /\ (Len(urls) = 250 /\ batch_size = 100) =>
             [k \in 1..Len(posts) |-> Len(posts[k].batch)] = <<100, 100, 50>>

C6_Witness ==
  /\ pc = "done" /\ caller = "direct"
  /\ Len(urls) = 250 /\ batch_size = 100
  /\ Len(Posts(log)) = 3

\* C7: submit_to_indexnow sleeps exactly once after every request, failed
\* ones included: when it returns the log holds as many delays as requests,
\* and every request is directly followed by a delay.
C7_DelayAfterEveryBatch ==
  (pc = "done" /\ caller = "direct") =>
     /\ Count(log, "sleep") = Count(log, "post")
     /\ \A k \in 1..Len(log) :
          log[k].op = "post" => (k < Len(log) /\ log[k + 1].op = "sleep")

NoDuplicates(l) == \A a, b \in 1..Len(l) : a # b => l[a] # l[b]

\* C8: compare_urls_and_filter_changes puts every URL of the two mappings in
\* exactly one class: new (in current only), deleted (in previous only),
\* changed (in both, the lastmod values differ, absent against present being
\* a difference) or unchanged (in both with equal lastmod, absent against
\* absent included; in none of the lists).  The three lists are pairwise
\* disjoint and without duplicates.
C8_DiffClassifiesEveryUrl ==
  (pc = "done" /\ caller = "direct" /\ Count(log, "diff") = 1) =>
     LET cur == Range(current_urls.keys)
         prev == Range(previous_urls.keys)
     IN /\ Range(new_urls) = cur \ prev
        /\ Range(deleted_urls) = prev \ cur
        /\ Range(changed_urls) =
             {u \in cur \cap prev : current_urls.val[u] # previous_urls.val[u]}
        /\ \A u \in cur \cap prev :
             (current_urls.val[u] = NoLastmod) # (previous_urls.val[u] = NoLastmod)
                => u \in Range(changed_urls)
        /\ \A u \in cur \cap prev :
             current_urls.val[u] = previous_urls.val[u] =>
                u \notin Range(new_urls) \cup Range(changed_urls)
                            \cup Range(deleted_urls)
        /\ Range(new_urls) \cap Range(changed_urls) = {}
        /\ Range(new_urls) \cap Range(deleted_urls) = {}
        /\ Range(changed_urls) \cap Range(deleted_urls) = {}
        /\ NoDuplicates(new_urls) /\ NoDuplicates(changed_urls)
        /\ NoDuplicates(deleted_urls)

C8_Witness ==
  /\ pc = "done" /\ caller = "direct" /\ Count(log, "diff") = 1
  /\ new_urls # <<>> /\ deleted_urls # <<>> /\ changed_urls # <<>>
  /\ \E u \in Range(changed_urls) :
       current_urls.val[u] = NoLastmod /\ previous_urls.val[u] # NoLastmod

\* C9: comparing a mapping with itself gives empty new, changed and deleted
\* lists, also when some of its URLs have no lastmod.
C9_DiffOfEqualIsEmpty ==
  (pc = "done" /\ caller = "direct" /\ Count(log, "diff") = 1
     /\ current_urls = previous_urls) =>
        new_urls = <<>> /\ changed_urls = <<>> /\ deleted_urls = <<>>

C9_Witness ==
  /\ pc = "done" /\ caller = "direct" /\ Count(log, "diff") = 1
  /\ current_urls = previous_urls
  /\ Len(current_urls.keys) >= 2
  /\ \E u, w \in Range(current_urls.keys) :
       current_urls.val[u] = NoLastmod /\ current_urls.val[w] # NoLastmod
  /\ new_urls = <<>> /\ changed_urls = <<>> /\ deleted_urls = <<>>

\* the URLs of the <url> elements of a well-formed document that have a <loc>
LocsOf(content) ==
  IF content.wf
  THEN {content.entries[k][1] : k \in 1..Len(content.entries)} \ {NoLoc}
  ELSE {}

\* the run fetched a document and found no snapshot
FirstRun ==
  /\ caller = "run"
  /\ current_content \notin {NoneContent, EmptyBytes}
  /\ DOMAIN files0 = {}

\* C10: a run that finds no stored snapshot compares no digest and computes
\* no diff: every URL of the fetched sitemap is new, changed and deleted are
\* empty, and the URLs handed to the dispatcher and sent are exactly the
\* parsed ones (the dispatcher is not called when there is none).
C10_FirstRunSubmitsAll ==
  (pc = "done" /\ FirstRun) =>
     /\ Range(new_urls) = LocsOf(current_content)
     /\ NoDuplicates(new_urls)
     /\ changed_urls = <<>> /\ deleted_urls = <<>>
     /\ urls_to_submit = new_urls
     /\ urls_to_submit # <<>> => urls = urls_to_submit
     /\ Concat(Posts(log)) = new_urls
     /\ Count(log, "hash") = 0 /\ Count(log, "diff") = 0
     /\ Count(log, "parse") = 1

C10_Witness ==
  /\ pc = "done" /\ FirstRun
  /\ Len(new_urls) = 2
  /\ Concat(Posts(log)) = new_urls
  /\ \E k \in 1..Len(current_content.entries) :
       current_content.entries[k][1] = NoLoc

\* the statuses of the events of one operation
Statuses(l, op) == {l[k].status : k \in {j \in 1..Len(l) : l[j].op = op}}

\* the snapshot the run compared against
Baseline == files0[get_latest_sitemap_file(files0)].content

\* the run fetched a document, found a snapshot with another digest and could
\* parse both
Diffed ==
  /\ caller = "run"
  /\ current_content \notin {NoneContent, EmptyBytes}
  /\ DOMAIN files0 # {}
  /\ calculate_hash(current_content) # calculate_hash(Baseline)
  /\ ~ParseRaises(current_content) /\ ~ParseRaises(Baseline)

\* the diff of the run, computed from what it fetched and what was stored
RunDiff ==
  compare_urls_and_filter_changes(parse_sitemap_urls(current_content),
                                  parse_sitemap_urls(Baseline))

\* C11: a run that finds a snapshot with another digest and whose diff has no
\* new and no changed URL returns True without sending a request; it saves
\* the fetched bytes (they are in the store when the write succeeded) and
\* prunes (one file is left when every removal succeeded).
C11_NothingToSubmitStillSaves ==
  (pc = "done" /\ Diffed /\ ToSubmit(RunDiff) = <<>>) =>
     /\ result = TRUE
     /\ Count(log, "post") = 0
     /\ FromSave(Ops(log)) = <<"save", "prune">>
     /\ "ok" \in Statuses(log, "save") =>
           \E n \in DOMAIN files : files[n].content = current_content
     /\ ("ok" \in Statuses(log, "save") /\ "ok" \in Statuses(log, "prune")) =>
           Cardinality(DOMAIN files) = KeepCount

C11_Witness ==
  /\ pc = "done" /\ Diffed
  /\ RunDiff.new = <<>> /\ RunDiff.changed = <<>> /\ RunDiff.deleted = <<>>
  /\ result = TRUE
  /\ "ok" \in Statuses(log, "save") /\ "ok" \in Statuses(log, "prune")
  /\ Cardinality(DOMAIN files) = 1
  /\ \E n \in DOMAIN files : files[n].content = current_content
  /\ files # files0

\* C12: a run that computed a diff (or, without a snapshot, took every URL
\* as new) calls save_submission_history exactly once when it found a new,
\* a changed or a deleted URL, and the entry written records the three
\* lists; a run that found none of the three does not call it and leaves
\* the history alone.
C12_HistoryIffAnythingFound ==
  (pc = "done" /\ caller = "run" /\ Count(log, "diff") + Count(log, "parse") >= 1
     /\ "raised" \notin Statuses(log, "parse")) =>
     IF new_urls # <<>> \/ changed_urls # <<>> \/ deleted_urls # <<>>
     THEN /\ Count(log, "history") = 1
          /\ Statuses(log, "history") \subseteq {"ok", "read_failed"} =>
                /\ history_file # <<>>
                /\ history_file[Len(history_file)].new = new_urls
                /\ history_file[Len(history_file)].changed = changed_urls
                /\ history_file[Len(history_file)].deleted = deleted_urls
     ELSE /\ Count(log, "history") = 0
          /\ history_file = history0

\* stores of MaxFiles files named 1..MaxFiles, the modification times being
\* the same numbers in every order
PruneSamples ==
  {[n \in 1..MaxFiles |-> [content |-> EmptyBytes, mtime |-> p[n]]] :
     p \in {q \in [1..MaxFiles -> 1..MaxFiles] :
              \A a, b \in 1..MaxFiles : a # b => q[a] # q[b]}}

\* cleanup_old_sitemaps(keep_count) on k files leaves min(keep_count, k)
\* files, untouched, each of them modified later than every file it removed
CleanupByMtime ==
  \A fs \in PruneSamples, keep_count \in 0..MaxFiles + 1 :
     LET left == cleanup_old_sitemaps(fs, keep_count, {})
     IN /\ Cardinality(DOMAIN left) = Min(keep_count, MaxFiles)
        /\ \A n \in DOMAIN left : left[n] = fs[n]
        /\ \A n \in DOMAIN left, o \in DOMAIN fs \ DOMAIN left :
              fs[n].mtime > fs[o].mtime

\* C13: a run that saved its snapshot and whose removals all succeeded
\* leaves exactly KeepCount = 1 file in the store: it holds the bytes the
\* run fetched and was modified later than every file the run found.  The
\* files cleanup_old_sitemaps removes are chosen by modification time, also
\* where the order of the names is another one.
C13_RetentionKeepsNewest ==
  /\ CleanupByMtime
  /\ (pc = "done" /\ caller = "run" /\ "ok" \in Statuses(log, "save")
        /\ Statuses(log, "prune") = {"ok"}) =>
       /\ Cardinality(DOMAIN files) = KeepCount
       /\ \A n \in DOMAIN files :
             /\ files[n].content = current_content
             /\ files[n].mtime = mtick
             /\ \A o \in DOMAIN files0 : files0[o].mtime < files[n].mtime

C13_Witness ==
  /\ pc = "done" /\ caller = "run" /\ "ok" \in Statuses(log, "save")
  /\ Statuses(log, "prune") = {"ok"}
  /\ Cardinality(DOMAIN files0) = 1
  /\ Cardinality(DOMAIN files) = 1
  /\ DOMAIN files \cap DOMAIN files0 = {}
  /\ \A n \in DOMAIN files : files[n].content = current_content

\* the entry a call of save_submission_history writes for the lists it got
NewEntry ==
  [new |-> new_urls, changed |-> changed_urls, deleted |-> deleted_urls,
   total |-> Len(urls_to_submit)]

\* the last n elements of a sequence
LastN(l, n) == SubSeq(l, Len(l) - Min(n, Len(l)) + 1, Len(l))

\* C14: the log never holds more than MaxHistory entries, and a call of
\* save_submission_history that wrote the file on a log of k entries leaves
\* exactly min(k+1, MaxHistory) entries: the last ones of the stored entries
\* followed by the new entry, in their order.
C14_HistoryBounded ==
  /\ Len(history_file) <= MaxHistory
  /\ (pc = "done" /\ caller = "direct"
        /\ Statuses(log, "history") \cap {"ok", "read_failed"} # {}) =>
       /\ Len(history_file) = Min(Len(history0) + 1, MaxHistory)
       /\ history_file = LastN(Append(history0, NewEntry), MaxHistory)

\* C14 without the calls whose read of the stored log failed
C14_BoundedWhenReadable ==
  /\ Len(history_file) <= MaxHistory
  /\ (pc = "done" /\ caller = "direct" /\ Statuses(log, "history") = {"ok"}) =>
       /\ Len(history_file) = Min(Len(history0) + 1, MaxHistory)
       /\ history_file = LastN(Append(history0, NewEntry), MaxHistory)

\* a call on a full log of different entries has evicted the oldest
C14_Evicted ==
  /\ pc = "done" /\ caller = "direct" /\ Statuses(log, "history") = {"ok"}
  /\ Len(history0) = MaxHistory /\ Len(history_file) = MaxHistory
  /\ history0[1] # history0[2]
  /\ history_file[1] = history0[2]
  /\ history_file[MaxHistory] = NewEntry /\ NewEntry # history0[1]

\* C15: a run whose download returned nothing returns False and has done
\* nothing else: no second download, no digest, no parse, no request, no
\* save, no history write, no prune; the snapshot files and the history are
\* what they were when it started.
C15_FetchFailureIsFatal ==
  (pc = "done" /\ caller = "run" /\ runs >= 1
     /\ current_content \in {NoneContent, EmptyBytes}) =>
     /\ result = FALSE
     /\ log = <<>>
     /\ files = files0
     /\ history_file = history0

C15_Witness ==
  /\ pc = "done" /\ caller = "run" /\ runs = 2
  /\ current_content = NoneContent
  /\ result = FALSE /\ log = <<>>
  /\ files # <<>> /\ files = files0
  /\ history_file # <<>> /\ history_file = history0

\* C16: parse_sitemap_urls never raises, and a run that got past the digest
\* comparison never aborts in the parse: it goes on to the submission or to
\* the save.
C16_ParseFailureNotFatal ==
  /\ pc # "crashed"
  /\ \A k \in 1..Len(log) : log[k].op = "parse" => log[k].status = "ok"

\* C17: a call of save_submission_history that wrote the file has kept the
\* entries that were stored, except those evicted for the bound: the file
\* holds the entries stored before the call followed by the new one, cut to
\* the last MaxHistory, also when the read of the stored file failed.
C17_HistoryKeepsStoredEntries ==
  (pc \in {"prune", "return", "done"} /\ caller = "run"
     /\ Statuses(log, "history") \cap {"ok", "read_failed"} # {}) =>
     /\ history_file # <<>>
     /\ history_file
          = AppendBounded(history0, history_file[Len(history_file)], MaxHistory)

\* C18: when a run ends, the file the next run will pick (the last name)
\* holds the bytes of this run if it saved them, and otherwise still the
\* bytes this run picked as its baseline; it is also the most recently
\* modified file, the one a prune with keep_count = 1 keeps.
C18_BaselineIsLastSaved ==
  (pc = "done" /\ caller = "run" /\ runs >= 1) =>
     /\ "ok" \in Statuses(log, "save") =>
           /\ DOMAIN files # {}
           /\ files[get_latest_sitemap_file(files)].content = current_content
     /\ ("ok" \notin Statuses(log, "save") /\ DOMAIN files0 # {}) =>
           /\ DOMAIN files # {}
           /\ files[get_latest_sitemap_file(files)].content = Baseline
     /\ \A o \in DOMAIN files :
           files[o].mtime <= files[get_latest_sitemap_file(files)].mtime

\* the URLs of the fetched sitemap that the snapshot saved by the run before
\* does not hold with the same lastmod
NewOrChangedSince(saved) ==
  LET cur == parse_sitemap_urls(current_content)
      old == parse_sitemap_urls(saved)
  IN {u \in Range(cur.keys) :
        u \notin Range(old.keys) \/ cur.val[u] # old.val[u]}

\* C19: after a run that saved its snapshot although one of its requests
\* failed, the next run sends no request when it fetches the same bytes
\* (it returns True at the digest comparison and leaves the store alone),
\* and when it fetches other bytes it sends exactly the URLs that are new or
\* changed against the saved snapshot, each once: the URLs of the failed
\* request are sent again only if they are among these.
C19_FailedBatchNotResent ==
  (pc = "done" /\ caller = "run" /\ prev_run # NoneContent
     /\ current_content \notin {NoneContent, EmptyBytes}) =>
     IF current_content = prev_run
     THEN /\ result = TRUE
          /\ Count(log, "post") = 0
          /\ files = files0
     ELSE LET sent == Concat(Posts(log))
          IN /\ Range(sent) = NewOrChangedSince(prev_run)
             /\ NoDuplicates(sent)

C19_Witness ==
  /\ pc = "done" /\ caller = "run" /\ prev_run # NoneContent
  /\ current_content \notin {NoneContent, EmptyBytes}
  /\ current_content # prev_run
  /\ Count(log, "post") >= 1
  /\ Range(Concat(Posts(log))) = NewOrChangedSince(prev_run)
  /\ (LocsOf(current_content) \cap LocsOf(prev_run))
        \ Range(Concat(Posts(log))) # {}

\* the same bytes fetched again after a failed request: nothing is sent
C19_SameBytesWitness ==
  /\ pc = "done" /\ caller = "run" /\ prev_run # NoneContent
  /\ current_content = prev_run
  /\ result = TRUE /\ Count(log, "post") = 0 /\ log # <<>>

\* C20: the list handed to the dispatcher is the new URLs followed by the
\* changed URLs; the requests of a run carry exactly this list, every URL
\* of it is a <loc> of the fetched sitemap and is sent once, and no URL that
\* the diff classified as deleted, nor one it left unclassified (unchanged),
\* is sent.
C20_SubmitsNewThenChanged ==
  (caller = "run" /\ pc \in {"return", "done"}
     /\ current_content \notin {NoneContent, EmptyBytes}) =>
     LET sent == Concat(Posts(log))
     IN /\ urls_to_submit = new_urls \o changed_urls
        /\ sent = urls_to_submit
        /\ NoDuplicates(sent)
        /\ Range(sent) \subseteq LocsOf(current_content)
        /\ Range(sent) \cap Range(deleted_urls) = {}
        /\ Diffed =>
             LET d == RunDiff
                 cur == parse_sitemap_urls(current_content)
                 old == parse_sitemap_urls(Baseline)
             IN /\ Range(sent) = Range(d.new) \cup Range(d.changed)
                /\ \A u \in Range(sent) :
                     u \notin Range(old.keys) \/ cur.val[u] # old.val[u]

C20_Witness ==
  /\ caller = "run" /\ pc = "done" /\ Diffed
  /\ new_urls # <<>> /\ changed_urls # <<>>
  /\ Concat(Posts(log)) = new_urls \o changed_urls
  /\ deleted_urls # <<>>

TypeOK ==
  /\ pc \in {"idle", "analyze", "nosubmit", "submit", "submit_entry", "batch",
             "save", "history", "prune", "return", "done", "crashed",
             "compare_entry", "history_entry"}
  /\ runs \in 0..MaxRuns
====
